---- MODULE Spec2Model ----
(***************************************************************************)
(* Model of the timing-api-client request/response pipeline:               *)
(*   - toSnakeCase (src/utils/toSnakeCase.ts), run over an explicit heap   *)
(*     of JavaScript containers so that aliasing and mutation are visible; *)
(*   - performRequest / ApiError (src/utils/request.ts);                   *)
(*   - TimingClient.request (src/client.ts);                               *)
(*   - the resource clients (src/resources/*.ts).                          *)
(*                                                                         *)
(* JavaScript strings that the code only compares or concatenates are TLA+ *)
(* strings.  Object keys, which the casing rule rewrites character by      *)
(* character, are sequences of one-character strings.                      *)
(***************************************************************************)
EXTENDS Integers, Sequences, FiniteSets, TLC

VARIABLES
    heap,       \* SpecSnake: the JavaScript heap, a sequence of container cells
    input,      \* SpecSnake: the value handed to toSnakeCase
    ret,        \* SpecSnake: toSnakeCase(input), first call
    retAgain,   \* SpecSnake: toSnakeCase(input), second call
    retTwice,   \* SpecSnake: toSnakeCase(toSnakeCase(input))
    pc,         \* Spec: "idle", "awaiting" (request sent), "settled", "done"
    op,         \* Spec: the operation invoked
    id,         \* Spec: its id argument
    arg,        \* Spec: its options / query / data / config argument
    sent,       \* Spec: the requests handed to the transport by this invocation
    reply,      \* Spec: how the transport settled the request
    result,     \* Spec: what the operation returned or threw
    client,     \* the TimingClient: the options it was constructed with, the calls
                \* of axios.create, the resource clients it exposes, the error
                \* its constructor threw
    others      \* SpecPar: the invocations suspended at their await

snakeVars == <<heap, input, ret, retAgain, retTwice>>
callVars == <<pc, op, id, arg, sent, reply, result>>

clientVars == <<client, others>>

vars == <<heap, input, ret, retAgain, retTwice, pc, op, id, arg, sent, reply, result,
          client, others>>

-----------------------------------------------------------------------------
(* Bounds of the model.                                                    *)

\* Size of a toSnakeCase input: one per scalar, one per container, one per
\* character of every key.
MaxSize == 6

\* SpecSeq: the number of operations a caller invokes one after the other.
MaxCalls == 2

\* SpecValid: the length of the list of required fields, and the number of
\* entries of a custom-fields mapping.
MaxFields == 2
MaxEntries == 2

-----------------------------------------------------------------------------
(* JavaScript values.                                                      *)

\* A value as the code holds it: a scalar, or a reference to a heap cell.
Scalar(t, s) == [t |-> t, s |-> s, a |-> 0]
Ref(a) == [t |-> "ref", s |-> "", a |-> a]
NoVal == Scalar("none", "")

\* A heap cell: an array (keys empty) or a plain object (keys[i] names vals[i],
\* in insertion order).
EmptyArr == [kind |-> "arr", keys |-> <<>>, vals |-> <<>>]
EmptyObj == [kind |-> "obj", keys |-> <<>>, vals |-> <<>>]

\* A value seen as a tree (what deep equality compares).
Leaf(k, s) == [kind |-> k, s |-> s, keys |-> <<>>, kids |-> <<>>]
Arr(kids) == [kind |-> "arr", s |-> "", keys |-> <<>>, kids |-> kids]
Obj(keys, kids) == [kind |-> "obj", s |-> "", keys |-> keys, kids |-> kids]
IsContainer(t) == t.kind \in {"arr", "obj"}

RECURSIVE Tree(_, _)
Tree(h, v) ==
    IF v.t = "ref"
    THEN LET c == h[v.a]
         IN [kind |-> c.kind, s |-> "", keys |-> c.keys,
             kids |-> [i \in 1..Len(c.vals) |-> Tree(h, c.vals[i])]]
    ELSE Leaf(v.t, v.s)

\* The cells reachable from a value, the cell it references included.
RECURSIVE Cells(_, _)
Cells(h, v) ==
    IF v.t = "ref"
    THEN {v.a} \cup UNION {Cells(h, h[v.a].vals[i]) : i \in 1..Len(h[v.a].vals)}
    ELSE {}

-----------------------------------------------------------------------------
(* src/utils/toSnakeCase.ts                                                *)

\* The characters the regular expression class [A-Z] matches, and their
\* lowercase forms.
UpperSeq == <<"A", "B", "C", "D", "E", "F", "G", "H", "I", "J", "K", "L", "M",
              "N", "O", "P", "Q", "R", "S", "T", "U", "V", "W", "X", "Y", "Z">>
LowerSeq == <<"a", "b", "c", "d", "e", "f", "g", "h", "i", "j", "k", "l", "m",
              "n", "o", "p", "q", "r", "s", "t", "u", "v", "w", "x", "y", "z">>
UpperChars == {UpperSeq[i] : i \in 1..Len(UpperSeq)}

\* The characters the keys of enumerated payloads are made of.
Alphabet == {"b", "B", "_"}

\* String.prototype.toLowerCase, per character.
LowerChar(c) ==
    IF c \in UpperChars
    THEN LowerSeq[CHOOSE i \in 1..Len(UpperSeq) : UpperSeq[i] = c]
    ELSE c
\* A mutant of ToLowerCase: the key keeps its case.
KeepCase(k) == k

ToLowerCase(k) == [i \in 1..Len(k) |-> LowerChar(k[i])]

\* key.replace(/([A-Z])/g, "_$1"): every match of [A-Z], wherever it stands,
\* is replaced by an underscore followed by the match.
RECURSIVE ReplaceUpper(_)
ReplaceUpper(k) ==
    IF k = <<>> THEN <<>>
    ELSE (IF Head(k) \in UpperChars THEN <<"_", Head(k)>> ELSE <<Head(k)>>)
         \o ReplaceUpper(Tail(k))

\* A mutant of snakeKey: a leading underscore is stripped from the result.
snakeKeyStripLeading(key) ==
    LET k == ToLowerCase(ReplaceUpper(key))
    IN IF k # <<>> /\ Head(k) = "_" THEN Tail(k) ELSE k

\* const snakeKey = key.replace(/([A-Z])/g, "_$1").toLowerCase()
snakeKey(key) == ToLowerCase(ReplaceUpper(key))

\* Array.isArray(obj)
IsArray(h, v) == v.t = "ref" /\ h[v.a].kind = "arr"
\* obj !== null && typeof obj === "object"
IsObject(h, v) == v.t = "ref"

\* Object.entries(obj): a snapshot of the own entries, in insertion order.
ObjectEntries(h, v) ==
    [i \in 1..Len(h[v.a].keys) |-> [key |-> h[v.a].keys[i], val |-> h[v.a].vals[i]]]

\* A mutant of SetProp: a key that exists keeps the value it has.
SetPropKeepFirst(c, k, v) ==
    IF \E i \in 1..Len(c.keys) : c.keys[i] = k
    THEN c
    ELSE [c EXCEPT !.keys = Append(@, k), !.vals = Append(@, v)]

\* acc[k] = v on a plain object: an existing key keeps its place and gets the
\* new value, a new key is appended.
SetProp(c, k, v) ==
    IF \E i \in 1..Len(c.keys) : c.keys[i] = k
    THEN LET i == CHOOSE j \in 1..Len(c.keys) : c.keys[j] = k
         IN [c EXCEPT !.vals[i] = v]
    ELSE [c EXCEPT !.keys = Append(@, k), !.vals = Append(@, v)]

\* A mutant of NewAcc: the reduction accumulates into the input object.
NewAccInPlace(h, obj) == [heap |-> h, addr |-> obj.a]

\* The accumulator of the reduction: a fresh `{}`.
NewAcc(h, obj) == [heap |-> Append(h, EmptyObj), addr |-> Len(h) + 1]

\* The array Array.prototype.map returns: a fresh array.
NewArr(h, obj) == [heap |-> Append(h, EmptyArr), addr |-> Len(h) + 1]

RECURSIVE toSnakeCase(_, _), MapFrom(_, _, _, _, _), ReduceFrom(_, _, _, _)

\* toSnakeCase(obj) run on heap h: the heap after the call and the value returned.
toSnakeCase(h, obj) ==
    IF IsArray(h, obj)
    THEN LET n == NewArr(h, obj)
         IN MapFrom(n.heap, obj.a, n.addr, Len(h[obj.a].vals), 1)
    ELSE IF IsObject(h, obj)
    THEN LET entries == ObjectEntries(h, obj)
             n == NewAcc(h, obj)
         IN ReduceFrom(n.heap, entries, n.addr, 1)
    ELSE [heap |-> h, val |-> obj]

\* A mutant of MapFrom: the elements are copied, not transformed.
MapFromCopy(h, src, dst, len, i) ==
    [heap |-> [h EXCEPT ![dst].vals = h[src].vals], val |-> Ref(dst)]

\* obj.map(toSnakeCase), from index i on: element i is read when its turn comes.
MapFrom(h, src, dst, len, i) ==
    IF i > len THEN [heap |-> h, val |-> Ref(dst)]
    ELSE LET r == toSnakeCase(h, h[src].vals[i])
         IN MapFrom([r.heap EXCEPT ![dst].vals = Append(@, r.val)], src, dst, len, i + 1)

\* Object.entries(obj).reduce(..., {}), from entry i on.
ReduceFrom(h, entries, acc, i) ==
    IF i > Len(entries) THEN [heap |-> h, val |-> Ref(acc)]
    ELSE LET r == toSnakeCase(h, entries[i].val)
         IN ReduceFrom([r.heap EXCEPT ![acc] = SetProp(@, snakeKey(entries[i].key), r.val)],
                       entries, acc, i + 1)

-----------------------------------------------------------------------------
(* Payloads: JSON-like values as callers write them.                       *)

Scalars == {Leaf("str", "aB"), Leaf("num", "1"), Leaf("bool", "true"), Leaf("null", "")}

Range(f) == {f[i] : i \in DOMAIN f}

RECURSIVE KeysOfLen(_)
KeysOfLen(n) ==
    IF n = 0 THEN {<<>>}
    ELSE {Append(k, c) : k \in KeysOfLen(n - 1), c \in Alphabet}

RECURSIVE SumSeq(_)
SumSeq(q) == IF q = <<>> THEN 0 ELSE Head(q) + SumSeq(Tail(q))

\* The size of a payload: one per scalar, one per container, one per character
\* of every key.
CellSize(c) ==
    1 + SumSeq([i \in 1..Len(c.keys) |-> Len(c.keys[i])])
      + Cardinality({i \in 1..Len(c.vals) : c.vals[i].t # "ref"})
PayloadSize(h, v) ==
    IF v.t = "ref" THEN SumSeq([a \in 1..Len(h) |-> CellSize(h[a])]) ELSE 1

\* Evaluation of a payload literal: the heap with its containers allocated
\* (children before their parent) and the resulting value.
RECURSIVE Load(_, _), LoadKids(_, _, _, _)
Load(h, t) ==
    IF IsContainer(t)
    THEN LET k == LoadKids(h, t.kids, 1, <<>>)
         IN [heap |-> Append(k.heap, [kind |-> t.kind, keys |-> t.keys, vals |-> k.vals]),
             val |-> Ref(Len(k.heap) + 1)]
    ELSE [heap |-> h, val |-> Scalar(t.kind, t.s)]

LoadKids(h, kids, i, acc) ==
    IF i > Len(kids) THEN [heap |-> h, vals |-> acc]
    ELSE LET r == Load(h, kids[i])
         IN LoadKids(r.heap, kids, i + 1, Append(acc, r.val))

\* toSnakeCase as a function of payload trees (for callers that only see values).
SnakeTree(t) ==
    LET l == Load(<<>>, t)
        r == toSnakeCase(l.heap, l.val)
    IN Tree(r.heap, r.val)

-----------------------------------------------------------------------------
(* SpecSnake: a caller builds a payload of size up to MaxSize and applies   *)
(* toSnakeCase to it.                                                      *)

\* The values a caller can put in a container: a scalar, or a new empty container.
NewValues(h) ==
    [h1 : {h}, v : {Scalar(t.kind, t.s) : t \in Scalars}]
        \cup [h1 : {Append(h, EmptyArr), Append(h, EmptyObj)}, v : {Ref(Len(h) + 1)}]

InitSnake ==
    /\ \E n \in NewValues(<<>>) : heap = n.h1 /\ input = n.v
    /\ ret = NoVal
    /\ retAgain = NoVal
    /\ retTwice = NoVal
    /\ pc = "idle"
    /\ op = ""
    /\ id = ""
    /\ arg = Leaf("undef", "")
    /\ sent = <<>>
    /\ reply = 0
    /\ result = 0
    /\ client = 0
    /\ others = <<>>

\* The caller appends an element to an array of the payload.
PushItem ==
    /\ ret = NoVal
    /\ PayloadSize(heap, input) < MaxSize
    /\ \E a \in 1..Len(heap) : \E n \in NewValues(heap) :
          /\ heap[a].kind = "arr"
          /\ heap' = [n.h1 EXCEPT ![a].vals = Append(@, n.v)]
    /\ UNCHANGED <<input, ret, retAgain, retTwice>>
    /\ UNCHANGED callVars
    /\ UNCHANGED clientVars

\* The caller adds an entry under a new key to a mapping of the payload.
PutEntry ==
    /\ ret = NoVal
    /\ \E a \in 1..Len(heap) : \E n \in NewValues(heap) :
       \E l \in 1..(MaxSize - PayloadSize(heap, input) - 1) : \E k \in KeysOfLen(l) :
          /\ heap[a].kind = "obj"
          /\ k \notin Range(heap[a].keys)
          /\ heap' = [n.h1 EXCEPT ![a] = SetProp(@, k, n.v)]
    /\ UNCHANGED <<input, ret, retAgain, retTwice>>
    /\ UNCHANGED callVars
    /\ UNCHANGED clientVars

\* const r = toSnakeCase(input)
CallToSnakeCase ==
    /\ ret = NoVal
    /\ LET r == toSnakeCase(heap, input)
       IN heap' = r.heap /\ ret' = r.val
    /\ UNCHANGED <<input, retAgain, retTwice>>
    /\ UNCHANGED callVars
    /\ UNCHANGED clientVars

\* const r2 = toSnakeCase(input), a second call on the same input
CallAgain ==
    /\ retTwice # NoVal
    /\ retAgain = NoVal
    /\ LET r == toSnakeCase(heap, input)
       IN heap' = r.heap /\ retAgain' = r.val
    /\ UNCHANGED <<input, ret, retTwice>>
    /\ UNCHANGED callVars
    /\ UNCHANGED clientVars

\* const rr = toSnakeCase(r)
CallOnResult ==
    /\ ret # NoVal
    /\ retTwice = NoVal
    /\ LET r == toSnakeCase(heap, ret)
       IN heap' = r.heap /\ retTwice' = r.val
    /\ UNCHANGED <<input, ret, retAgain>>
    /\ UNCHANGED callVars
    /\ UNCHANGED clientVars

NextSnake == PushItem \/ PutEntry \/ CallToSnakeCase \/ CallAgain \/ CallOnResult

SpecSnake == InitSnake /\ [][NextSnake]_vars

-----------------------------------------------------------------------------
(* JavaScript semantics the request code relies on.                        *)

Undefined == Leaf("undef", "")
Null == Leaf("null", "")
Str(x) == Leaf("str", x)
Num(x) == Leaf("num", x)

\* ToBoolean
Truthy(t) ==
    CASE t.kind \in {"undef", "null"} -> FALSE
      [] t.kind = "str" -> t.s # ""
      [] t.kind = "num" -> t.s \notin {"0", "NaN"}
      [] t.kind = "bool" -> t.s = "true"
      [] OTHER -> TRUE

\* a || b
OrElse(a, b) == IF Truthy(a) THEN a ELSE b

\* t[key] where t is neither null nor undefined: an own property of a plain
\* object, undefined on anything else (no payload key names a built-in property).
Get(t, key) ==
    IF t.kind = "obj" /\ \E i \in 1..Len(t.keys) : t.keys[i] = key
    THEN t.kids[CHOOSE i \in 1..Len(t.keys) : t.keys[i] = key]
    ELSE Undefined

\* t?.key
GetOpt(t, key) == IF t.kind \in {"undef", "null"} THEN Undefined ELSE Get(t, key)

\* String(t), as a template literal and the Error constructor convert.
RECURSIVE StringOf(_), Join(_, _)
StringOf(t) ==
    CASE t.kind \in {"str", "num", "bool"} -> t.s
      [] t.kind = "null" -> "null"
      [] t.kind = "undef" -> "undefined"
      [] t.kind = "obj" -> "[object Object]"
      [] OTHER -> Join(t.kids, 1)

\* Array.prototype.join(","), from element i on.
Join(kids, i) ==
    IF i > Len(kids) THEN ""
    ELSE (IF kids[i].kind \in {"undef", "null"} THEN "" ELSE StringOf(kids[i]))
         \o (IF i < Len(kids) THEN "," ELSE "")
         \o Join(kids, i + 1)

DataKey == <<"d", "a", "t", "a">>
ErrorKey == <<"e", "r", "r", "o", "r">>
MessageKey == <<"m", "e", "s", "s", "a", "g", "e">>
CodeKey == <<"c", "o", "d", "e">>

-----------------------------------------------------------------------------
(* Errors.  An error object has an identity (ref); the transport's error is  *)
(* object 1, an object the client creates while handling it is object 2.     *)

NoResponse == [present |-> FALSE, status |-> Undefined, data |-> Undefined]
Response(status, data) == [present |-> TRUE, status |-> status, data |-> data]

ErrorObject(ref, cls, isAxios, message, response, status, code, originalError) ==
    [ref |-> ref, cls |-> cls, isAxiosError |-> isAxios, message |-> message,
     response |-> response, status |-> status, code |-> code,
     originalError |-> originalError]

NoError == ErrorObject(0, "", FALSE, Undefined, NoResponse, Undefined, Undefined, 0)

TransportRef == 1
ClientRef == 2
\* ... and the error an already normalized error was made from is object 3.
InnerRef == 3

\* An AxiosError as the transport rejects with it.
AxiosError(message, response) ==
    ErrorObject(TransportRef, "AxiosError", TRUE, Str(message), response,
                Undefined, Undefined, 0)

\* Any other error raised while the request is made.
PlainError(message) ==
    ErrorObject(TransportRef, "Error", FALSE, Str(message), NoResponse,
                Undefined, Undefined, 0)

\* An error that was normalized before it reaches the catch block (by an
\* interceptor of the axios instance, or by a nested performRequest or
\* TimingClient.request): an ApiError, or the object TimingClient.request throws.
NormalizedError(cls, status, message) ==
    ErrorObject(TransportRef, cls, FALSE, Str(message), NoResponse,
                status, Undefined, InnerRef)

\* The TypeError the engine raises on a property read of null or undefined.
TypeError ==
    ErrorObject(ClientRef, "TypeError", FALSE, Str("Cannot read properties"),
                NoResponse, Undefined, Undefined, 0)

\* error instanceof Error
InstanceOfError(e) == e.cls \in {"Error", "AxiosError", "ApiError", "TypeError"}

-----------------------------------------------------------------------------
(* src/utils/request.ts                                                    *)

\* A mutant of isAxiosError: every caught error is taken for a transport error.
isAxiosErrorAlways(error) == TRUE

\* A mutant of isAxiosError: an error that carries an originalError is taken
\* for a transport error too.
isAxiosErrorOrWrapped(error) == error.isAxiosError \/ error.originalError # 0

\* axios.isAxiosError(error)
isAxiosError(error) == error.isAxiosError

\* A mutant of ApiError: the code of the details is not kept.
ApiErrorNoCode(details, orig) ==
    ErrorObject(ClientRef, "ApiError", FALSE,
                Str(IF Truthy(orig.response.data)
                    THEN StringOf(details.message) \o ": " \o StringOf(orig.response.data)
                    ELSE StringOf(details.message)),
                NoResponse, details.status, Undefined, orig.ref)

\* new ApiError(details), details.originalError being the error object orig.
ApiError(details, orig) ==
    LET \* super(details.message)
        message == IF details.message.kind = "undef" THEN ""
                   ELSE StringOf(details.message)
        \* details.originalError.response?.data
        data == IF orig.response.present THEN orig.response.data ELSE Undefined
    IN ErrorObject(ClientRef, "ApiError", FALSE,
                   Str(IF Truthy(data) THEN message \o ": " \o StringOf(data)
                       ELSE message),
                   NoResponse, details.status, details.code, orig.ref)

\* The catch block of performRequest: what it throws for a caught error.
performRequestCatch(error) ==
    IF isAxiosError(error)
    THEN LET statusCode ==
                 OrElse(IF error.response.present THEN error.response.status
                        ELSE Undefined, Num("500"))
             errorData ==
                 IF error.response.present THEN error.response.data ELSE Undefined
             errorMessage ==
                 OrElse(GetOpt(errorData, ErrorKey),
                   OrElse(GetOpt(errorData, MessageKey),
                     OrElse(error.message, Str("An unknown error occurred"))))
             errorCode == GetOpt(errorData, CodeKey)
         IN ApiError([status |-> statusCode, message |-> errorMessage,
                      code |-> errorCode], error)
    ELSE error

\* isApiError(error)
isApiError(error) ==
    /\ InstanceOfError(error)
    /\ error.status.kind # "undef"
    /\ error.originalError # 0

-----------------------------------------------------------------------------
(* src/client.ts                                                           *)

\* The options of the constructor; a field left out is undefined.
ClientOptions(apiKey, baseURL, timeout) ==
    [apiKey |-> apiKey, baseURL |-> baseURL, timeout |-> timeout]

\* A destructuring default, `name = value`: it applies to undefined only.
Defaulted(given, default) == IF given.kind = "undef" THEN default ELSE given

\* The configuration handed to axios.create.
AxiosConfig(baseURL, timeout, apiKey) ==
    [baseURL |-> baseURL, timeout |-> timeout,
     headers |-> [Authorization |-> Str("Bearer " \o StringOf(apiKey)),
                  ContentType |-> Str("application/json"),
                  Accept |-> Str("application/json")]]

\* A TimingClient before its constructor has run.
Unconstructed(options) ==
    [options |-> options, created |-> <<>>, resources |-> {}, error |-> NoError]

\* A mutant of NewTimingClient: the defaults replace every falsy option.
NewTimingClientFalsyDefaults(options) ==
    IF ~Truthy(options.apiKey)
    THEN [options |-> options, created |-> <<>>, resources |-> {},
          error |-> ErrorObject(ClientRef, "Error", FALSE, Str("API key is required"),
                                NoResponse, Undefined, Undefined, 0)]
    ELSE [options |-> options,
          created |-> <<AxiosConfig(OrElse(options.baseURL,
                                           Str("https://web.timingapp.com/api/v1")),
                                    OrElse(options.timeout, Num("10000")),
                                    options.apiKey)>>,
          resources |-> {"timeEntries", "projects", "reports"},
          error |-> NoError]

\* new TimingClient(options): the client after its constructor, which either
\* throws or calls axios.create and makes the three resource clients.
NewTimingClient(options) ==
    LET baseURL == Defaulted(options.baseURL, Str("https://web.timingapp.com/api/v1"))
        timeout == Defaulted(options.timeout, Num("10000"))
    IN IF ~Truthy(options.apiKey)
       THEN [options |-> options, created |-> <<>>, resources |-> {},
             error |-> ErrorObject(ClientRef, "Error", FALSE, Str("API key is required"),
                                   NoResponse, Undefined, Undefined, 0)]
       ELSE [options |-> options,
             created |-> <<AxiosConfig(baseURL, timeout, options.apiKey)>>,
             resources |-> {"timeEntries", "projects", "reports"},
             error |-> NoError]

\* A mutant of clientRequestCatch: the status is not defaulted to 500.
clientRequestCatchNoDefault(error) ==
    IF isAxiosError(error)
    THEN ErrorObject(ClientRef, "Object", FALSE,
                     OrElse(IF error.response.present
                            THEN GetOpt(error.response.data, ErrorKey)
                            ELSE Undefined,
                            error.message),
                     NoResponse,
                     IF error.response.present THEN error.response.status
                     ELSE Undefined,
                     Undefined, error.ref)
    ELSE error

\* The catch block of TimingClient.request: what it throws for a caught error.
clientRequestCatch(error) ==
    IF isAxiosError(error)
    THEN LET statusCode ==
                 OrElse(IF error.response.present THEN error.response.status
                        ELSE Undefined, Num("500"))
             errorMessage ==
                 OrElse(IF error.response.present
                        THEN GetOpt(error.response.data, ErrorKey)
                        ELSE Undefined,
                        error.message)
         IN ErrorObject(ClientRef, "Object", FALSE, errorMessage, NoResponse,
                        statusCode, Undefined, error.ref)
    ELSE error

-----------------------------------------------------------------------------
(* src/resources/timeEntries.ts, reports.ts, projects.ts                   *)

ParamsKey == <<"p", "a", "r", "a", "m", "s">>
TitleKey == <<"t", "i", "t", "l", "e">>
ReplaceExistingKey ==
    <<"r", "e", "p", "l", "a", "c", "e", "E", "x", "i", "s", "t", "i", "n", "g">>
UrlKey == <<"u", "r", "l">>

\* One call on the axios instance: the method called, the url and the data
\* handed to it (undefined when the method takes none) and its config argument.
Request(call, url, data, config) ==
    [call |-> call, url |-> url, data |-> data, config |-> config]

\* A mutant of ParamsConfig: an absent query is sent as the empty mapping.
ParamsConfigDefaulted(query) ==
    Obj(<<ParamsKey>>, <<IF Truthy(query) THEN SnakeTree(query) ELSE Obj(<<>>, <<>>)>>)

\* { params: query ? toSnakeCase(query) : undefined }
ParamsConfig(query) ==
    Obj(<<ParamsKey>>, <<IF Truthy(query) THEN SnakeTree(query) ELSE Undefined>>)

Returned(value) == [kind |-> "return", value |-> value, error |-> NoError]
Thrown(error) == [kind |-> "throw", value |-> Undefined, error |-> error]
NoResult == [kind |-> "none", value |-> Undefined, error |-> NoError]

\* A mutant of unwrap: the response body is returned whole.
unwrapNothing(body) == Returned(body)

\* `return response.data.data`, body being response.data: reading a property of
\* null or undefined raises a TypeError.
unwrap(body) ==
    IF body.kind \in {"undef", "null"} THEN Thrown(TypeError)
    ELSE Returned(Get(body, DataKey))

ValueOps ==
    {"timeEntries.start", "timeEntries.stop", "timeEntries.create",
     "timeEntries.list", "timeEntries.get", "timeEntries.update",
     "reports.generate",
     "projects.list", "projects.get", "projects.create", "projects.update"}
DeleteOps == {"timeEntries.delete", "projects.delete"}
ResourceOps == ValueOps \cup DeleteOps

-----------------------------------------------------------------------------
(* src/utils/validation.ts                                                 *)

\* A key as a JavaScript string.
RECURSIVE KeyString(_)
KeyString(k) == IF k = <<>> THEN "" ELSE Head(k) \o KeyString(Tail(k))

\* names.join(sep)
RECURSIVE JoinNames(_, _)
JoinNames(names, sep) ==
    IF names = <<>> THEN ""
    ELSE IF Len(names) = 1 THEN KeyString(names[1])
    ELSE KeyString(names[1]) \o sep \o JoinNames(Tail(names), sep)

\* new Error(message), thrown by a validation function.
ValidationError(message) ==
    ErrorObject(ClientRef, "Error", FALSE, Str(message), NoResponse,
                Undefined, Undefined, 0)

\* A mutant of IsMissingValue: every falsy value counts as missing.
IsFalsyValue(value) == ~Truthy(value)

\* value === undefined || value === null || value === ""
IsMissingValue(value) == value.kind \in {"undef", "null"} \/ value = Str("")

\* validateRequiredFields(obj, fields): returns, or throws the names of the
\* fields without value.
validateRequiredFields(obj, fields) ==
    LET missingFields == SelectSeq(fields, LAMBDA field : IsMissingValue(Get(obj, field)))
    IN IF Len(missingFields) > 0
       THEN Thrown(ValidationError("Missing required fields: "
                                   \o JoinNames(missingFields, ", ")))
       ELSE Returned(Undefined)

Digits == {"0", "1", "2", "3", "4", "5", "6", "7", "8", "9"}

\* /^[a-zA-Z0-9\-_]+$/.test(key)
MatchesKeyFormat(key) ==
    /\ key # <<>>
    /\ \A i \in 1..Len(key) :
          key[i] \in UpperChars \cup Range(LowerSeq) \cup Digits \cup {"-", "_"}

\* /^\d+$/.test(key)
MatchesDigits(key) == key # <<>> /\ \A i \in 1..Len(key) : key[i] \in Digits

\* typeof value === "string"
IsString(value) == value.kind = "str"

\* A mutant of CheckEntry: the value is checked before the key.
CheckEntryValueFirst(key, value) ==
    IF value # Null /\ ~IsString(value)
    THEN Thrown(ValidationError("Custom field '" \o KeyString(key)
                                \o "' value must be null or a string"))
    ELSE IF key = <<>>
    THEN Thrown(ValidationError("Custom field key must be a non-empty string"))
    ELSE IF ~MatchesKeyFormat(key)
    THEN Thrown(ValidationError("Custom field key '" \o KeyString(key)
            \o "' contains invalid characters (only alphanumeric, dash, underscore allowed)"))
    ELSE IF Head(key) = "_"
    THEN Thrown(ValidationError("Custom field key '" \o KeyString(key)
                                \o "' cannot start with an underscore"))
    ELSE IF MatchesDigits(key)
    THEN Thrown(ValidationError("Custom field key '" \o KeyString(key)
                                \o "' cannot contain only digits"))
    ELSE Returned(Undefined)

\* The callback of forEach in validateCustomFields, for one entry.
CheckEntry(key, value) ==
    \* !key || typeof key !== "string" (the keys of Object.entries are strings)
    IF key = <<>>
    THEN Thrown(ValidationError("Custom field key must be a non-empty string"))
    ELSE IF ~MatchesKeyFormat(key)
    THEN Thrown(ValidationError("Custom field key '" \o KeyString(key)
            \o "' contains invalid characters (only alphanumeric, dash, underscore allowed)"))
    ELSE IF Head(key) = "_"
    THEN Thrown(ValidationError("Custom field key '" \o KeyString(key)
                                \o "' cannot start with an underscore"))
    ELSE IF MatchesDigits(key)
    THEN Thrown(ValidationError("Custom field key '" \o KeyString(key)
                                \o "' cannot contain only digits"))
    ELSE IF value # Null /\ ~IsString(value)
    THEN Thrown(ValidationError("Custom field '" \o KeyString(key)
                                \o "' value must be null or a string"))
    ELSE Returned(Undefined)

\* Object.entries(customFields).forEach(...), from entry i on: the first throw
\* of the callback ends the loop.
RECURSIVE ForEachEntry(_, _)
ForEachEntry(customFields, i) ==
    IF i > Len(customFields.keys) THEN Returned(Undefined)
    ELSE LET r == CheckEntry(customFields.keys[i], customFields.kids[i])
         IN IF r.kind = "throw" THEN r ELSE ForEachEntry(customFields, i + 1)

\* validateCustomFields(customFields)
validateCustomFields(customFields) ==
    IF ~Truthy(customFields) THEN Returned(Undefined)
    ELSE ForEachEntry(customFields, 1)

-----------------------------------------------------------------------------
(* The inputs of Spec.                                                     *)

Ids == {"1", ""}

\* Options, data and query mappings a caller passes.
OptionPool ==
    {Obj(<<>>, <<>>),
     Obj(<< <<"b", "B">> >>, <<Leaf("bool", "true")>>),
     Obj(<< <<"b">>, <<"b", "B">> >>,
         <<Str("aB"), Arr(<<Obj(<< <<"B">> >>, <<Num("1")>>), Str("aB")>>)>>),
     Obj(<< <<"b", "B">>, <<"b", "_", "b">> >>, <<Num("1"), Num("2")>>),
     Obj(<<TitleKey, ReplaceExistingKey>>, <<Str("t"), Leaf("bool", "true")>>)}

\* An optional query: absent, or a mapping.
QueryPool == {Undefined} \cup OptionPool

\* Request configurations handed to TimingClient.request and performRequest.
ConfigPool ==
    {Obj(<<UrlKey>>, <<Str("/test")>>),
     Obj(<<UrlKey, ParamsKey>>,
         <<Str("/test"), Obj(<< <<"b", "B">> >>, <<Num("1")>>)>>)}

\* What a response envelope can carry.
DataPool ==
    {Arr(<<>>),
     Obj(<< <<"s", "e", "l", "f">> >>, <<Str("/projects/1")>>),
     Obj(<< <<"i", "s", "R", "u", "n", "n", "i", "n", "g">>, <<"B">> >>,
         <<Leaf("bool", "true"), Obj(<< <<"b", "B">> >>, <<Str("aB")>>)>>),
     Arr(<<Obj(<< <<"b", "B">> >>, <<Num("1")>>)>>),
     Str("aB"),
     Null}

Envelope(data) == Obj(<<DataKey>>, <<data>>)

\* The bodies of successful responses: envelopes, and bodies that are none.
Bodies ==
    {Envelope(d) : d \in DataPool}
        \cup {Undefined, Null, Str(""), Obj(<<>>, <<>>),
              Obj(<<ErrorKey>>, <<Str("E")>>), Arr(<<>>)}

\* The bodies of error responses: an object with any of the fields error,
\* message and code (a string, possibly empty), or no object at all.
FieldValues == {Undefined, Str(""), Str("E")}
ErrorBody(e, m, c) ==
    LET fields == <<[k |-> ErrorKey, v |-> e], [k |-> MessageKey, v |-> m],
                    [k |-> CodeKey, v |-> c]>>
        present == SelectSeq(fields, LAMBDA f : f.v.kind # "undef")
    IN Obj([i \in 1..Len(present) |-> present[i].k],
           [i \in 1..Len(present) |-> present[i].v])
ErrorBodies ==
    {ErrorBody(e, IF m.kind = "str" /\ m.s = "E" THEN Str("M") ELSE m, c) :
        e \in FieldValues, m \in FieldValues, c \in {Undefined, Str(""), Str("C")}}
        \cup {Undefined, Null, Str(""), Str("raw"), Num("7")}

\* The options a caller constructs the client with.
OptionsPool ==
    {ClientOptions(k, b, t) :
        k \in {Undefined, Str(""), Str("k")},
        b \in {Undefined, Str("https://example.test/api")},
        t \in {Undefined, Num("0"), Num("5000")}}

\* The options of the client the operations of Spec run on.
UsualOptions == ClientOptions(Str("k"), Undefined, Undefined)

Statuses == {Num("0"), Num("404"), Num("500")}
TransportMessages == {"", "Network Error"}

\* What the transport can reject with.
TransportErrors ==
    {AxiosError(m, Response(st, b)) :
        m \in TransportMessages, st \in Statuses, b \in ErrorBodies}
        \cup {AxiosError(m, NoResponse) : m \in TransportMessages}
        \cup {PlainError("boom")}
        \cup {NormalizedError(cls, Num("404"), "Not Found") : cls \in {"ApiError", "Object"}}

-----------------------------------------------------------------------------
(* Spec: one operation of the client, from its invocation to its outcome.  *)

NoReply == [kind |-> "none", body |-> Undefined, error |-> NoError]

Init ==
    /\ pc = "idle"
    /\ op = ""
    /\ id = ""
    /\ arg = Undefined
    /\ sent = <<>>
    /\ reply = NoReply
    /\ result = NoResult
    /\ heap = <<>>
    /\ input = NoVal
    /\ ret = NoVal
    /\ retAgain = NoVal
    /\ retTwice = NoVal
    /\ client = NewTimingClient(UsualOptions)
    /\ others = <<>>

\* A mutant of Issue: the operation writes the timeout of the shared transport.
IssueReconfiguring(name, i, a, request) ==
    /\ pc = "idle"
    /\ pc' = "awaiting"
    /\ op' = name
    /\ id' = i
    /\ arg' = a
    /\ sent' = Append(sent, request)
    /\ client' = [client EXCEPT !.created[1].timeout = Num("0")]
    /\ UNCHANGED <<reply, result, others>>
    /\ UNCHANGED snakeVars

\* The operation `name` is invoked and hands one request to the transport.
Issue(name, i, a, request) ==
    /\ pc = "idle"
    /\ pc' = "awaiting"
    /\ op' = name
    /\ id' = i
    /\ arg' = a
    /\ sent' = Append(sent, request)
    /\ UNCHANGED <<reply, result>>
    /\ UNCHANGED snakeVars
    /\ UNCHANGED clientVars

\* A mutant of TimeEntriesStart: the options are sent as they are.
TimeEntriesStartAsGiven ==
    \E options \in OptionPool :
        Issue("timeEntries.start", "", options,
              Request("post", "/time-entries/start", options, Undefined))

TimeEntriesStart ==
    \E options \in OptionPool :
        Issue("timeEntries.start", "", options,
              Request("post", "/time-entries/start", SnakeTree(options), Undefined))

\* A mutant of TimeEntriesStop: what the caller passes is sent as payload.
TimeEntriesStopForwarding ==
    \E passed \in QueryPool :
        Issue("timeEntries.stop", "", passed,
              Request("put", "/time-entries/stop",
                      IF Truthy(passed) THEN SnakeTree(passed) ELSE Obj(<<>>, <<>>),
                      Undefined))

\* (stop declares no parameter: an argument passed to it is ignored)
TimeEntriesStop ==
    \E ignored \in QueryPool :
        Issue("timeEntries.stop", "", ignored,
              Request("put", "/time-entries/stop", Obj(<<>>, <<>>), Undefined))

\* A mutant of TimeEntriesCreate: options without title are refused before
\* anything is sent.
TimeEntriesCreateValidating ==
    \E options \in OptionPool :
        IF validateRequiredFields(options, <<TitleKey>>).kind = "throw"
        THEN /\ pc = "idle"
             /\ pc' = "done"
             /\ op' = "timeEntries.create"
             /\ arg' = options
             /\ result' = validateRequiredFields(options, <<TitleKey>>)
             /\ UNCHANGED <<id, sent, reply>>
             /\ UNCHANGED snakeVars
             /\ UNCHANGED clientVars
        ELSE Issue("timeEntries.create", "", options,
                   Request("post", "/time-entries", SnakeTree(options), Undefined))

TimeEntriesCreate ==
    \E options \in OptionPool :
        Issue("timeEntries.create", "", options,
              Request("post", "/time-entries", SnakeTree(options), Undefined))

TimeEntriesList ==
    \E query \in QueryPool :
        Issue("timeEntries.list", "", query,
              Request("get", "/time-entries", Undefined, ParamsConfig(query)))

TimeEntriesGet ==
    \E i \in Ids :
        Issue("timeEntries.get", i, Undefined,
              Request("get", "/time-entries/" \o i, Undefined, Undefined))

TimeEntriesUpdate ==
    \E i \in Ids, data \in OptionPool :
        Issue("timeEntries.update", i, data,
              Request("put", "/time-entries/" \o i, SnakeTree(data), Undefined))

TimeEntriesDelete ==
    \E i \in Ids :
        Issue("timeEntries.delete", i, Undefined,
              Request("delete", "/time-entries/" \o i, Undefined, Undefined))

ReportsGenerate ==
    \E query \in QueryPool :
        Issue("reports.generate", "", query,
              Request("get", "/report", Undefined, ParamsConfig(query)))

ProjectsList ==
    \E query \in QueryPool :
        Issue("projects.list", "", query,
              Request("get", "/projects", Undefined, ParamsConfig(query)))

ProjectsGet ==
    \E i \in Ids :
        Issue("projects.get", i, Undefined,
              Request("get", "/projects/" \o i, Undefined, Undefined))

ProjectsCreate ==
    \E options \in OptionPool :
        Issue("projects.create", "", options,
              Request("post", "/projects", SnakeTree(options), Undefined))

ProjectsUpdate ==
    \E i \in Ids, data \in OptionPool :
        Issue("projects.update", i, data,
              Request("put", "/projects/" \o i, SnakeTree(data), Undefined))

ProjectsDelete ==
    \E i \in Ids :
        Issue("projects.delete", i, Undefined,
              Request("delete", "/projects/" \o i, Undefined, Undefined))

\* A mutant of ClientRequest: the configuration is rewritten to snake_case.
ClientRequestSnakeCased ==
    \E config \in ConfigPool :
        Issue("client.request", "", config,
              Request("request", "", Undefined, SnakeTree(config)))

\* TimingClient.request(config): this.axiosInstance.request(config)
ClientRequest ==
    \E config \in ConfigPool :
        Issue("client.request", "", config, Request("request", "", Undefined, config))

\* performRequest(axiosInstance, config): axiosInstance.request(config)
PerformRequest ==
    \E config \in ConfigPool :
        Issue("performRequest", "", config, Request("request", "", Undefined, config))

\* The transport resolves the request with a response.
TransportResolve ==
    /\ pc = "awaiting"
    /\ \E body \in Bodies : reply' = [kind |-> "ok", body |-> body, error |-> NoError]
    /\ pc' = "settled"
    /\ UNCHANGED <<op, id, arg, sent, result>>
    /\ UNCHANGED snakeVars
    /\ UNCHANGED clientVars

\* The transport rejects the request with an error.
TransportReject ==
    /\ pc = "awaiting"
    /\ \E error \in TransportErrors :
          reply' = [kind |-> "err", body |-> Undefined, error |-> error]
    /\ pc' = "settled"
    /\ UNCHANGED <<op, id, arg, sent, result>>
    /\ UNCHANGED snakeVars
    /\ UNCHANGED clientVars

\* The operation ends with outcome r.
Finish(r) ==
    /\ pc' = "done"
    /\ result' = r
    /\ UNCHANGED <<op, id, arg, sent, reply>>
    /\ UNCHANGED snakeVars
    /\ UNCHANGED clientVars

\* A resource method resumes after its await and returns response.data.data.
ResourceUnwrap ==
    /\ pc = "settled" /\ op \in ValueOps /\ reply.kind = "ok"
    /\ Finish(unwrap(reply.body))

\* A mutant of ResourceDeleteDone: delete returns response.data.data.
ResourceDeleteUnwrap ==
    /\ pc = "settled" /\ op \in DeleteOps /\ reply.kind = "ok"
    /\ Finish(unwrap(reply.body))

\* delete resumes after its await and returns nothing.
ResourceDeleteDone ==
    /\ pc = "settled" /\ op \in DeleteOps /\ reply.kind = "ok"
    /\ Finish(Returned(Undefined))

\* The await of a resource method throws what the transport rejected with: the
\* methods have no catch block.
ResourceReject ==
    /\ pc = "settled" /\ op \in ResourceOps /\ reply.kind = "err"
    /\ Finish(Thrown(reply.error))

\* performRequest returns response.data.
PerformRequestReturn ==
    /\ pc = "settled" /\ op = "performRequest" /\ reply.kind = "ok"
    /\ Finish(Returned(reply.body))

\* A mutant of PerformRequestCatch: a failed request is sent once more.
PerformRequestRetry ==
    /\ pc = "settled" /\ op = "performRequest" /\ reply.kind = "err"
    /\ IF Len(sent) < 2
       THEN /\ sent' = Append(sent, sent[Len(sent)])
            /\ pc' = "awaiting"
            /\ reply' = NoReply
            /\ UNCHANGED <<op, id, arg, result>>
            /\ UNCHANGED snakeVars
            /\ UNCHANGED clientVars
       ELSE Finish(Thrown(performRequestCatch(reply.error)))

PerformRequestCatch ==
    /\ pc = "settled" /\ op = "performRequest" /\ reply.kind = "err"
    /\ Finish(Thrown(performRequestCatch(reply.error)))

\* TimingClient.request returns response.data.
ClientRequestReturn ==
    /\ pc = "settled" /\ op = "client.request" /\ reply.kind = "ok"
    /\ Finish(Returned(reply.body))

ClientRequestCatch ==
    /\ pc = "settled" /\ op = "client.request" /\ reply.kind = "err"
    /\ Finish(Thrown(clientRequestCatch(reply.error)))

Next ==
    \/ TimeEntriesStart \/ TimeEntriesStop \/ TimeEntriesCreate \/ TimeEntriesList
    \/ TimeEntriesGet \/ TimeEntriesUpdate \/ TimeEntriesDelete
    \/ ReportsGenerate
    \/ ProjectsList \/ ProjectsGet \/ ProjectsCreate \/ ProjectsUpdate \/ ProjectsDelete
    \/ ClientRequest \/ PerformRequest
    \/ TransportResolve \/ TransportReject
    \/ ResourceUnwrap \/ ResourceDeleteDone \/ ResourceReject
    \/ PerformRequestReturn \/ PerformRequestCatch
    \/ ClientRequestReturn \/ ClientRequestCatch

Spec == Init /\ [][Next]_vars

\* SpecSeq: a caller that has the outcome of an operation invokes a further
\* one on the same client; the requests sent so far stay on record.
NextInvocation ==
    /\ pc = "done"
    /\ Len(sent) < MaxCalls
    /\ pc' = "idle"
    /\ op' = ""
    /\ id' = ""
    /\ arg' = Undefined
    /\ reply' = NoReply
    /\ result' = NoResult
    /\ UNCHANGED sent
    /\ UNCHANGED snakeVars
    /\ UNCHANGED clientVars

NextSeq == Next \/ NextInvocation

SpecSeq == Init /\ [][NextSeq]_vars

\* SpecPar: operations issued on one client without waiting for one another.
\* An invocation runs from one await to the next without interruption; while
\* its request is in flight it is suspended and another one may run.  Every
\* invocation has its own record of the requests it handed to the transport.
Suspended(o, i, a, s) == [op |-> o, id |-> i, arg |-> a, sent |-> s]

RemoveAt(q, i) == [j \in 1..(Len(q) - 1) |-> IF j < i THEN q[j] ELSE q[j + 1]]

\* The caller, not awaiting the operation in flight, is free to invoke another.
Suspend ==
    /\ pc = "awaiting"
    /\ Len(others) + 1 < MaxCalls
    /\ others' = Append(others, Suspended(op, id, arg, sent))
    /\ pc' = "idle"
    /\ op' = ""
    /\ id' = ""
    /\ arg' = Undefined
    /\ sent' = <<>>
    /\ UNCHANGED <<reply, result, client>>
    /\ UNCHANGED snakeVars

\* The running invocation has ended; a suspended one is attended to.
Resume ==
    /\ pc = "done"
    /\ \E i \in 1..Len(others) :
          /\ op' = others[i].op
          /\ id' = others[i].id
          /\ arg' = others[i].arg
          /\ sent' = others[i].sent
          /\ others' = RemoveAt(others, i)
    /\ pc' = "awaiting"
    /\ reply' = NoReply
    /\ result' = NoResult
    /\ UNCHANGED client
    /\ UNCHANGED snakeVars

\* Of two invocations in flight, the other one is attended to.
Switch ==
    /\ pc = "awaiting"
    /\ \E i \in 1..Len(others) :
          /\ op' = others[i].op
          /\ id' = others[i].id
          /\ arg' = others[i].arg
          /\ sent' = others[i].sent
          /\ others' = Append(RemoveAt(others, i), Suspended(op, id, arg, sent))
    /\ UNCHANGED <<pc, reply, result, client>>
    /\ UNCHANGED snakeVars

NextPar == Next \/ Suspend \/ Resume \/ Switch

SpecPar == Init /\ [][NextPar]_vars

\* SpecNew: a caller constructs a client with options of its choice and, when
\* the constructor did not throw, invokes an operation on it.
InitNew ==
    /\ pc = "new"
    /\ \E options \in OptionsPool : client = Unconstructed(options)
    /\ op = ""
    /\ id = ""
    /\ arg = Undefined
    /\ sent = <<>>
    /\ reply = NoReply
    /\ result = NoResult
    /\ heap = <<>>
    /\ input = NoVal
    /\ ret = NoVal
    /\ retAgain = NoVal
    /\ retTwice = NoVal
    /\ others = <<>>

\* new TimingClient(options)
Construct ==
    /\ pc = "new"
    /\ client' = NewTimingClient(client.options)
    /\ pc' = IF client'.error = NoError THEN "idle" ELSE "failed"
    /\ UNCHANGED <<op, id, arg, sent, reply, result, others>>
    /\ UNCHANGED snakeVars

NextNew == Construct \/ Next

SpecNew == InitNew /\ [][NextNew]_vars

-----------------------------------------------------------------------------
(* SpecValid: a caller applies a validation function to an argument.  The   *)
(* object checked is in the heap (input refers to it), arg is the list of   *)
(* required fields, result the outcome.                                     *)

\* The sequences over S of length up to n.
RECURSIVE SeqsUpTo(_, _)
SeqsUpTo(S, n) ==
    IF n = 0 THEN {<<>>}
    ELSE SeqsUpTo(S, n - 1)
            \cup {Append(q, x) : q \in {r \in SeqsUpTo(S, n - 1) : Len(r) = n - 1}, x \in S}

\* The values of the fields of an object checked for required fields.
RequiredValues ==
    {Undefined, Null, Str(""), Str("x"), Num("0"), Leaf("bool", "false")}

FieldNames == {<<"a">>, <<"b">>, <<"c">>}

\* The objects checked: a and b each left out or holding a value.
RequiredObjects ==
    {LET fields == <<[k |-> <<"a">>, v |-> a], [k |-> <<"b">>, v |-> b]>>
         present == SelectSeq(fields, LAMBDA f : f.v.kind # "none")
     IN Obj([i \in 1..Len(present) |-> present[i].k],
            [i \in 1..Len(present) |-> present[i].v]) :
        a \in RequiredValues \cup {Leaf("none", "")},
        b \in RequiredValues \cup {Leaf("none", "")}}

\* The keys and the values of custom fields.
CustomKeys ==
    {<<>>, <<"1">>, <<"a">>, <<"a", "-", "1">>, <<"_", "a">>, <<"a", "!">>, <<"B", "_">>}
CustomValues == {Null, Str("x"), Str(""), Num("1"), Obj(<<>>, <<>>)}

\* The own keys of an object are enumerated with the integer keys first.
InKeyOrder(keys) ==
    \A i \in 1..Len(keys) : \A j \in (i + 1)..Len(keys) :
        /\ keys[i] # keys[j]
        /\ MatchesDigits(keys[j]) => MatchesDigits(keys[i])

CustomFieldsPool ==
    {Undefined, Null}
        \cup UNION {{Obj(keys, kids) : kids \in [1..Len(keys) -> CustomValues]} :
                       keys \in {q \in SeqsUpTo(CustomKeys, MaxEntries) : InKeyOrder(q)}}

InitValid ==
    /\ pc = "idle"
    /\ \/ \E obj \in RequiredObjects, fields \in SeqsUpTo(FieldNames, MaxFields) :
             /\ op = "validateRequiredFields"
             /\ heap = Load(<<>>, obj).heap
             /\ input = Load(<<>>, obj).val
             /\ arg = fields
       \/ \E customFields \in CustomFieldsPool :
             /\ op = "validateCustomFields"
             /\ heap = Load(<<>>, customFields).heap
             /\ input = Load(<<>>, customFields).val
             /\ arg = <<>>
    /\ id = ""
    /\ sent = <<>>
    /\ reply = NoReply
    /\ result = NoResult
    /\ ret = NoVal
    /\ retAgain = NoVal
    /\ retTwice = NoVal
    /\ client = NewTimingClient(UsualOptions)
    /\ others = <<>>

\* validateRequiredFields(obj, fields)
CallValidateRequiredFields ==
    /\ pc = "idle" /\ op = "validateRequiredFields"
    /\ result' = validateRequiredFields(Tree(heap, input), arg)
    /\ pc' = "done"
    /\ UNCHANGED <<op, id, arg, sent, reply>>
    /\ UNCHANGED snakeVars
    /\ UNCHANGED clientVars

\* validateCustomFields(customFields)
CallValidateCustomFields ==
    /\ pc = "idle" /\ op = "validateCustomFields"
    /\ result' = validateCustomFields(Tree(heap, input))
    /\ pc' = "done"
    /\ UNCHANGED <<op, id, arg, sent, reply>>
    /\ UNCHANGED snakeVars
    /\ UNCHANGED clientVars

NextValid == CallValidateRequiredFields \/ CallValidateCustomFields

SpecValid == InitValid /\ [][NextValid]_vars

-----------------------------------------------------------------------------
(* Properties of toSnakeCase, checked under SpecSnake.                     *)

InputTree == Tree(heap, input)
RetTree == Tree(heap, ret)

HasUpper(k) == \E i \in 1..Len(k) : k[i] \in UpperChars

\* Every key of a tree, at any depth.
RECURSIVE AllKeys(_)
AllKeys(t) == Range(t.keys) \cup UNION {AllKeys(t.kids[i]) : i \in 1..Len(t.kids)}

\* The depth of nesting of containers.
RECURSIVE Depth(_)
Depth(t) ==
    IF ~IsContainer(t) THEN 0
    ELSE IF t.kids = <<>> THEN 1
    ELSE 1 + (CHOOSE d \in {Depth(t.kids[i]) : i \in 1..Len(t.kids)} :
                \A i \in 1..Len(t.kids) : Depth(t.kids[i]) <= d)

\* The casing rule as the specification words it: an underscore goes before
\* every uppercase letter that is not at position 0, and every uppercase
\* letter is lowercased.
RuleNotAtZero(k) ==
    IF k = <<>> THEN <<>>
    ELSE <<LowerChar(Head(k))>> \o ToLowerCase(ReplaceUpper(Tail(k)))

\* C1: every key k of the mapping handed to toSnakeCase appears in the result
\* rewritten with an underscore before, and lowercased, exactly the uppercase
\* letters not at position 0 (no underscore is put before position 0).
C1_KeyRuleSkipsPositionZero ==
    (ret # NoVal /\ InputTree.kind = "obj")
        => \A i \in 1..Len(InputTree.keys) :
              RuleNotAtZero(InputTree.keys[i]) \in Range(RetTree.keys)

\* C2: on a payload whose keys, at every depth, are all lowercase-with-underscore,
\* toSnakeCase(toSnakeCase(m)) = toSnakeCase(m) = m.
C2_IdempotentOnSnakeKeys ==
    (\A k \in AllKeys(InputTree) : ~HasUpper(k))
        => /\ ret # NoVal => RetTree = InputTree
           /\ retTwice # NoVal => Tree(heap, retTwice) = RetTree

C2_Witness ==
    /\ retTwice # NoVal
    /\ \A k \in AllKeys(InputTree) : ~HasUpper(k)
    /\ Depth(InputTree) >= 2
    /\ \E k \in AllKeys(InputTree) : \E i \in 1..Len(k) : k[i] = "_"

\* The result r is what the transform of t has to be: a scalar is returned as
\* it is, an array becomes an array of the same length whose i-th element is the
\* transform of the i-th element, and a mapping becomes a mapping whose keys
\* hold no uppercase letter, with under the rewritten key of every entry the
\* transform of the value of the last entry rewritten to that key.
RECURSIVE IsTransformOf(_, _)
IsTransformOf(r, t) ==
    IF t.kind = "arr"
    THEN /\ r.kind = "arr"
         /\ Len(r.kids) = Len(t.kids)
         /\ \A i \in 1..Len(t.kids) : IsTransformOf(r.kids[i], t.kids[i])
    ELSE IF t.kind = "obj"
    THEN /\ r.kind = "obj"
         /\ Len(r.keys) = Len(r.kids)
         /\ \A j \in 1..Len(r.keys) :
               /\ ~HasUpper(r.keys[j])
               /\ \E i \in 1..Len(t.keys) : snakeKey(t.keys[i]) = r.keys[j]
         /\ \A i \in 1..Len(t.keys) :
               \E j \in 1..Len(r.keys) :
                  /\ r.keys[j] = snakeKey(t.keys[i])
                  /\ (\A i2 \in (i + 1)..Len(t.keys) : snakeKey(t.keys[i2]) # r.keys[j])
                        => IsTransformOf(r.kids[j], t.kids[i])
    ELSE r = t

\* C3: toSnakeCase rewrites the keys of mappings at every depth, returns every
\* scalar unchanged, and maps an array to an array of the same length, element
\* by element.
C3_RecursesAndKeepsScalars ==
    ret # NoVal => IsTransformOf(RetTree, InputTree)

\* A mapping inside an array, with a key that is rewritten, beside or below a
\* string that holds an uppercase letter.
C3_Witness ==
    /\ ret # NoVal
    /\ InputTree.kind = "arr"
    /\ \E i \in 1..Len(InputTree.kids) :
          /\ InputTree.kids[i].kind = "obj"
          /\ \E k \in Range(InputTree.kids[i].keys) : HasUpper(k)
          /\ Leaf("str", "aB") \in Range(RetTree.kids[i].kids)

\* C4, state part: the containers of a result are all new (none is a container
\* of the input), and a second call on the same input returns an equal result.
C4_FreshAndRepeatable ==
    /\ ret # NoVal => Cells(heap, ret) \cap Cells(heap, input) = {}
    /\ retAgain # NoVal =>
          /\ Cells(heap, retAgain) \cap (Cells(heap, input) \cup Cells(heap, ret)) = {}
          /\ Tree(heap, retAgain) = RetTree

\* C4, step part: a call of toSnakeCase leaves every container that existed
\* before it as it was.
C4_NoMutation ==
    (CallToSnakeCase \/ CallAgain \/ CallOnResult)
        => \A a \in 1..Len(heap) : a <= Len(heap') /\ heap'[a] = heap[a]

\* C4: toSnakeCase is pure: it changes no existing container, returns new
\* containers, and returns equal results for equal inputs.
C4_Pure == [](C4_FreshAndRepeatable) /\ [][C4_NoMutation]_vars

C4_Witness ==
    /\ retAgain # NoVal
    /\ Depth(InputTree) >= 2
    /\ \E k \in AllKeys(InputTree) : HasUpper(k)

-----------------------------------------------------------------------------
(* Properties of the client operations, checked under Spec.                *)

Done == pc = "done"
Succeeded == Done /\ reply.kind = "ok"
\* The operation caught (or let through) a transport error of the transport.
FailedInTransport == Done /\ reply.kind = "err" /\ reply.error.isAxiosError
NormalizingOps == {"performRequest", "client.request"}

\* C5: a value-returning resource operation whose response body is {data: T}
\* returns exactly T, every key of T as it came (the empty sequence included).
C5_ReturnsDataUnchanged ==
    (Succeeded /\ op \in ValueOps)
        => \A d \in DataPool : reply.body = Envelope(d) => result = Returned(d)

C5_Witness ==
    /\ Succeeded
    /\ op \in ValueOps
    /\ \E d \in DataPool :
          /\ \E k \in AllKeys(d) : HasUpper(k)
          /\ reply.body = Envelope(d)
          /\ result = Returned(d)

\* C6: a resource operation whose transport call succeeded raises no error of
\* its own, whatever the response body is; when the body is no envelope it
\* returns the absent value.
C6_NeverThrowsOnSuccess ==
    (Succeeded /\ op \in ResourceOps)
        => /\ result.kind = "return"
           /\ (\A d \in DataPool : reply.body # Envelope(d)) => result.value = Undefined

\* C7: the status of the error performRequest throws for a transport error is
\* the status of the response when there is one, and 500 when there is none.
C7_StatusIsResponseStatus ==
    (FailedInTransport /\ op = "performRequest")
        => result.error.status =
              (IF reply.error.response.present THEN reply.error.response.status
               ELSE Num("500"))

\* C8: for a transport error whose response has status s and body {error: m},
\* performRequest throws an error with status s and message exactly m.
C8_MessageIsErrorField ==
    (FailedInTransport /\ op = "performRequest" /\ reply.error.response.present)
        => \A m \in FieldValues \ {Undefined, Str("")} :
              reply.error.response.data = Obj(<<ErrorKey>>, <<m>>)
                 => /\ result.error.message = m
                    /\ result.error.status = reply.error.response.status

\* C9 as claimed: for a transport error without response, performRequest and
\* TimingClient.request throw an error with status 500 and the transport
\* error's own message.
C9_NetworkErrorKeepsMessage ==
    (FailedInTransport /\ op \in NormalizingOps /\ ~reply.error.response.present)
        => /\ result.kind = "throw"
           /\ result.error.status = Num("500")
           /\ result.error.message = reply.error.message

\* C9 amended: the status is 500 and the message is the transport error's own
\* message when that message is not empty; when it is empty, performRequest
\* throws the message "An unknown error occurred" and TimingClient.request the
\* empty message.
C9_NetworkErrorMessage ==
    (FailedInTransport /\ op \in NormalizingOps /\ ~reply.error.response.present)
        => /\ result.kind = "throw"
           /\ result.error.status = Num("500")
           /\ result.error.message =
                 (IF reply.error.message # Str("") THEN reply.error.message
                  ELSE IF op = "performRequest" THEN Str("An unknown error occurred")
                  ELSE Str(""))

C9_Witness ==
    /\ FailedInTransport
    /\ op = "client.request"
    /\ ~reply.error.response.present
    /\ reply.error.message = Str("Network Error")
    /\ result.error.message = Str("Network Error")
    /\ result.error.status = Num("500")

\* C10: an error that is no transport error reaches the caller of performRequest
\* and of TimingClient.request as the identical object, nothing added to it.
C10_OtherErrorsRethrown ==
    (Done /\ op \in NormalizingOps /\ reply.kind = "err" /\ ~reply.error.isAxiosError)
        => result = Thrown(reply.error)

C10_Witness ==
    /\ Done
    /\ op = "performRequest"
    /\ reply.kind = "err"
    /\ ~reply.error.isAxiosError
    /\ result.kind = "throw"
    /\ result.error.ref = TransportRef
    /\ result.error.status = Undefined

\* The body of the response of the transport error (undefined without response).
ErrorData == IF reply.error.response.present THEN reply.error.response.data ELSE Undefined

\* The message the precedence of the specification selects: the body's error
\* field, else its message field, else the transport's message, else the fixed
\* string, each used only when it is not empty.
MessageByPrecedence ==
    LET e == GetOpt(ErrorData, ErrorKey)
        m == GetOpt(ErrorData, MessageKey)
    IN IF e.kind = "str" /\ e.s # "" THEN e
       ELSE IF m.kind = "str" /\ m.s # "" THEN m
       ELSE IF reply.error.message # Str("") THEN reply.error.message
       ELSE Str("An unknown error occurred")

\* C11: the message of the error performRequest throws for a transport error is
\* the first non-empty one of: the body's error field, the body's message field,
\* the transport error's message, "An unknown error occurred"; it is never empty.
C11_MessageByPrecedence ==
    (FailedInTransport /\ op = "performRequest")
        => /\ result.error.message = MessageByPrecedence
           /\ result.error.message # Str("")

\* The code field of the body of the error response: absent when the body is
\* no object or has no such field.
BodyCode ==
    IF ErrorData.kind = "obj" /\ CodeKey \in Range(ErrorData.keys)
    THEN ErrorData.kids[CHOOSE i \in 1..Len(ErrorData.keys) : ErrorData.keys[i] = CodeKey]
    ELSE Undefined

\* C12: the error performRequest throws for a transport error carries the code
\* field of the response body when the body has one and no code otherwise, and
\* its originalError is the very error object that was caught.
C12_CodeAndOriginalError ==
    (FailedInTransport /\ op = "performRequest")
        => /\ result.kind = "throw"
           /\ result.error.code = BodyCode
           /\ result.error.originalError = reply.error.ref
           /\ result.error.ref # reply.error.ref

C12_Witness ==
    /\ FailedInTransport
    /\ op = "performRequest"
    /\ BodyCode = Str("C")
    /\ result.error.code = Str("C")
    /\ result.error.originalError = TransportRef

\* C13: for a transport error whose response body is missing, null or no object
\* (a raw string or number), performRequest throws a normalized error with the
\* status of the response, no code, and as message the transport error's own
\* message or, when that is empty, the fixed string: nothing of the body is in
\* the message and no property-access error is raised.
C13_NonObjectBodyAsEmpty ==
    (FailedInTransport /\ op = "performRequest"
        /\ reply.error.response.present /\ ErrorData.kind # "obj")
        => /\ result.kind = "throw"
           /\ result.error.cls = "ApiError"
           /\ result.error.status = reply.error.response.status
           /\ result.error.code = Undefined
           /\ result.error.message =
                 (IF reply.error.message # Str("") THEN reply.error.message
                  ELSE Str("An unknown error occurred"))

\* C14: when the transport call of a resource operation fails with a transport
\* error, the caller observes the normalized error the shared routine
\* (performRequest) makes of it, with status, message, code and originalError,
\* and not the raw transport error.
C14_ResourceErrorsNormalized ==
    (FailedInTransport /\ op \in ResourceOps)
        => /\ result.kind = "throw"
           /\ result.error.ref # reply.error.ref
           /\ result.error.status # Undefined
           /\ result.error.originalError = reply.error.ref
           /\ result.error = performRequestCatch(reply.error)

\* C15: for every transport error, the error TimingClient.request throws has
\* the status, the message and the code of the error performRequest throws for
\* the same transport error.
C15_ClientRequestSameContract ==
    (FailedInTransport /\ op = "client.request")
        => /\ result.kind = "throw"
           /\ result.error.status = performRequestCatch(reply.error).status
           /\ result.error.message = performRequestCatch(reply.error).message
           /\ result.error.code = performRequestCatch(reply.error).code

\* error instanceof ApiError
InstanceOfApiError(e) == e.cls = "ApiError"

\* C16: the error performRequest or TimingClient.request throws for a transport
\* error is an instance of ApiError, and isApiError is true of it.
C16_NormalizedIsApiError ==
    (FailedInTransport /\ op \in NormalizingOps)
        => /\ result.kind = "throw"
           /\ InstanceOfApiError(result.error)
           /\ isApiError(result.error)

\* The shape of a normalized error: status and originalError are present.
IsNormalized(e) == e.status # Undefined /\ e.originalError # 0

\* C17: on every failure path of performRequest and TimingClient.request the
\* caller receives either one normalized error whose originalError is the raw
\* transport error that was caught, or the caught non-transport error itself;
\* an error that is normalized already when it is caught is thrown as it is.
C17_NoDoubleWrapping ==
    (Done /\ op \in NormalizingOps /\ reply.kind = "err")
        => /\ result.kind = "throw"
           /\ \/ /\ reply.error.isAxiosError
                 /\ ~IsNormalized(reply.error)
                 /\ IsNormalized(result.error)
                 /\ result.error.originalError = reply.error.ref
              \/ /\ ~reply.error.isAxiosError
                 /\ result.error = reply.error
           /\ IsNormalized(reply.error) => result.error = reply.error

C17_Witness ==
    /\ Done
    /\ op = "performRequest"
    /\ reply.kind = "err"
    /\ IsNormalized(reply.error)
    /\ reply.error.cls = "ApiError"
    /\ result.kind = "throw"
    /\ result.error.originalError = InnerRef

QueryOps == {"timeEntries.list", "reports.generate", "projects.list"}

\* The request the current invocation handed to the transport.
LastSent == sent[Len(sent)]

\* The query parameters a request carries: config.params.
ParamsOf(request) == GetOpt(request.config, ParamsKey)

\* C18: projects.list, timeEntries.list and reports.generate called without
\* query send a GET without query parameters (params is absent); called with a
\* mapping, the empty one included, they send toSnakeCase(query) as params, so
\* list() and list({}) send different requests.
C18_AbsentVersusEmptyQuery ==
    (pc # "idle" /\ op \in QueryOps)
        => /\ LastSent.call = "get"
           /\ LastSent.data = Undefined
           /\ arg = Undefined => ParamsOf(LastSent) = Undefined
           /\ arg # Undefined =>
                 /\ ParamsOf(LastSent) = SnakeTree(arg)
                 /\ IsTransformOf(ParamsOf(LastSent), arg)
                 /\ ParamsOf(LastSent) # Undefined
           /\ arg = Obj(<<>>, <<>>) => ParamsOf(LastSent) = Obj(<<>>, <<>>)

C18_Witness ==
    /\ pc = "awaiting"
    /\ op = "projects.list"
    /\ arg = Obj(<<>>, <<>>)
    /\ ParamsOf(LastSent) = Obj(<<>>, <<>>)

\* C19: timeEntries.stop sends a PUT to /time-entries/stop with the empty
\* mapping as payload, whatever the caller passes and whatever was called
\* before, and returns the data field of the response envelope.
C19_StopSendsEmptyMapping ==
    (pc # "idle" /\ op = "timeEntries.stop")
        => /\ LastSent = Request("put", "/time-entries/stop", Obj(<<>>, <<>>), Undefined)
           /\ Succeeded =>
                 \A d \in DataPool : reply.body = Envelope(d) => result = Returned(d)

\* stop, called with an argument after a start that sent a payload, has returned.
C19_Witness ==
    /\ Len(sent) = 2
    /\ sent[1].call = "post"
    /\ sent[1].data # Obj(<<>>, <<>>)
    /\ op = "timeEntries.stop"
    /\ arg \in OptionPool \ {Obj(<<>>, <<>>)}
    /\ Succeeded
    /\ \E d \in DataPool : reply.body = Envelope(d) /\ result = Returned(d)

BodyOps ==
    {"timeEntries.start", "timeEntries.create", "timeEntries.update",
     "projects.create", "projects.update"}

\* C20 as claimed: the body of a body-bearing operation is toSnakeCase(argument),
\* with every field of the argument under its snake_case key, holding its value
\* (nested mappings rewritten likewise), and no field added or dropped.
C20_BodyKeepsEveryField ==
    (pc # "idle" /\ op \in BodyOps)
        => /\ LastSent.data = SnakeTree(arg)
           /\ Len(LastSent.data.keys) = Len(arg.keys)
           /\ \A i \in 1..Len(arg.keys) :
                 Get(LastSent.data, snakeKey(arg.keys[i])) = SnakeTree(arg.kids[i])

\* C20 amended: the body is toSnakeCase(argument); every field whose snake_case
\* key is not also that of a later field of the argument is sent under that key
\* with toSnakeCase of its value (a scalar as it is), every key sent is the
\* snake_case key of a field of the argument, and of several fields with the
\* same snake_case key only the last one's value is sent.
C20_BodyIsSnakeOfArgument ==
    (pc # "idle" /\ op \in BodyOps)
        => /\ LastSent.data = SnakeTree(arg)
           /\ IsTransformOf(LastSent.data, arg)
           /\ Len(LastSent.data.keys) <= Len(arg.keys)
           /\ \A i \in 1..Len(arg.keys) :
                 (\A j \in (i + 1)..Len(arg.keys) :
                     snakeKey(arg.keys[j]) # snakeKey(arg.keys[i]))
                    => Get(LastSent.data, snakeKey(arg.keys[i])) = SnakeTree(arg.kids[i])

\* start({title: "t", replaceExisting: true}) has sent
\* {title: "t", replace_existing: true}.
C20_Witness ==
    /\ pc = "awaiting"
    /\ op = "timeEntries.start"
    /\ Get(arg, ReplaceExistingKey) = Leaf("bool", "true")
    /\ LastSent.data =
          Obj(<<TitleKey,
                <<"r", "e", "p", "l", "a", "c", "e", "_", "e", "x", "i", "s", "t", "i", "n", "g">> >>,
              <<Str("t"), Leaf("bool", "true")>>)

\* The path of the resource a delete operation names.
DeletePath == IF op = "projects.delete" THEN "/projects/" \o id ELSE "/time-entries/" \o id

\* C21: projects.delete(id) and timeEntries.delete(id) send one DELETE request
\* to the path of id, without body, and on success return no value, whatever
\* the response body is (an envelope, absent, or malformed).
C21_DeleteIgnoresBody ==
    (pc # "idle" /\ op \in DeleteOps)
        => /\ sent = <<Request("delete", DeletePath, Undefined, Undefined)>>
           /\ Succeeded => result = Returned(Undefined)

\* delete has returned after a response whose body is null, and after one whose
\* body is an envelope with data.
C21_Witness ==
    /\ Succeeded
    /\ op = "projects.delete"
    /\ id = "1"
    /\ reply.body = Null
    /\ result = Returned(Undefined)

-----------------------------------------------------------------------------
(* Properties of the constructor, checked under SpecNew.                   *)

\* C22: constructing the client with a missing or empty apiKey throws the plain
\* error "API key is required" and leaves no resource client; with a non-empty
\* apiKey, axios.create is called once, with the base URL and the timeout given
\* (https://web.timingapp.com/api/v1 and 10000 when left out), the header
\* Authorization: Bearer <apiKey>, and JSON Content-Type and Accept.
C22_ConstructorContract ==
    pc # "new"
        => IF client.options.apiKey \in {Undefined, Str("")}
           THEN /\ pc = "failed"
                /\ client.error.cls = "Error"
                /\ client.error.message = Str("API key is required")
                /\ ~IsNormalized(client.error)
                /\ client.resources = {}
                /\ client.created = <<>>
           ELSE /\ pc # "failed"
                /\ client.error = NoError
                /\ client.resources = {"timeEntries", "projects", "reports"}
                /\ Len(client.created) = 1
                /\ client.created[1].baseURL =
                      (IF client.options.baseURL = Undefined
                       THEN Str("https://web.timingapp.com/api/v1")
                       ELSE client.options.baseURL)
                /\ client.created[1].timeout =
                      (IF client.options.timeout = Undefined THEN Num("10000")
                       ELSE client.options.timeout)
                /\ client.created[1].headers =
                      [Authorization |-> Str("Bearer k"),
                       ContentType |-> Str("application/json"),
                       Accept |-> Str("application/json")]

\* A client constructed with a timeout of 0 and no base URL has completed an
\* operation.
C22_Witness ==
    /\ pc = "done"
    /\ client.options = ClientOptions(Str("k"), Undefined, Num("0"))
    /\ client.created[1].timeout = Num("0")
    /\ client.created[1].baseURL = Str("https://web.timingapp.com/api/v1")

-----------------------------------------------------------------------------
(* Properties of concurrent operations, checked under SpecPar.             *)

\* The outcome an operation owes to its own transport response alone.
OutcomeOf(o, r) ==
    IF r.kind = "ok"
    THEN IF o \in ValueOps THEN unwrap(r.body)
         ELSE IF o \in DeleteOps THEN Returned(Undefined)
         ELSE Returned(r.body)
    ELSE IF o = "performRequest" THEN Thrown(performRequestCatch(r.error))
         ELSE IF o = "client.request" THEN Thrown(clientRequestCatch(r.error))
         ELSE Thrown(r.error)

\* C23, state part: the outcome of an operation is a function of the operation
\* and of the response to its own request, whatever else was issued or is in
\* flight.
C23_OwnOutcome == Done => result = OutcomeOf(op, reply)

\* C23, step part: no step changes the transport configuration of the client.
C23_ConfigurationKept == client' = client

\* C23: under every interleaving of operations on one client, the outcome of
\* each is determined by its own arguments and its own transport response, and
\* the transport configuration set at construction never changes.
C23_Isolation == [](C23_OwnOutcome) /\ [][C23_ConfigurationKept]_vars

\* projects.list, issued while timeEntries.start was in flight, has returned
\* its data, and timeEntries.start is in flight still.
C23_Witness ==
    /\ Done
    /\ op = "projects.list"
    /\ result.kind = "return"
    /\ result.value # Undefined
    /\ Len(others) = 1
    /\ others[1].op = "timeEntries.start"
    /\ others[1].arg # Obj(<<>>, <<>>)

-----------------------------------------------------------------------------
(* Further properties of the client operations, checked under Spec.        *)

\* C24, state part: an invocation has handed exactly one request to the
\* transport, and has returned or thrown once it is over.
C24_OneRequestSent ==
    /\ pc # "idle" => Len(sent) = 1
    /\ Done => result.kind = (IF reply.kind = "ok" /\ op \notin ValueOps THEN "return"
                              ELSE IF reply.kind = "err" THEN "throw"
                              ELSE result.kind)

\* C24, step part: once the transport has settled the request, the next step of
\* the invocation ends it, and sends nothing.
C24_EndsWhenSettled == pc = "settled" => (pc' = "done" /\ sent' = sent)

C25_ConfigAndBodyPassThrough ==
    (pc # "idle" /\ op \in NormalizingOps)
        => /\ LastSent = Request("request", "", Undefined, arg)
           /\ Succeeded => result = Returned(reply.body)

\* TimingClient.request, called with camelCase params, has returned an envelope
\* whole.
C25_Witness ==
    /\ Succeeded
    /\ op = "client.request"
    /\ \E k \in AllKeys(arg) : HasUpper(k)
    /\ LastSent.config = arg
    /\ \E d \in DataPool : reply.body = Envelope(d) /\ result.value = Envelope(d)

-----------------------------------------------------------------------------
(* Properties of the validation functions, checked under SpecValid.        *)

CheckedObject == Tree(heap, input)

\* The field named by fields[i] has no value in obj: it is absent, undefined,
\* null or the empty string.
LacksField(obj, field) ==
    \/ field \notin Range(obj.keys)
    \/ \E j \in 1..Len(obj.keys) :
          obj.keys[j] = field /\ obj.kids[j] \in {Undefined, Null, Str("")}

\* The names among fields[i..] that obj lacks, each preceded by ", " but the
\* first one listed.
RECURSIVE ListedFrom(_, _, _, _)
ListedFrom(obj, fields, i, first) ==
    IF i > Len(fields) THEN ""
    ELSE IF LacksField(obj, fields[i])
    THEN (IF first THEN "" ELSE ", ") \o KeyString(fields[i])
             \o ListedFrom(obj, fields, i + 1, FALSE)
    ELSE ListedFrom(obj, fields, i + 1, first)

\* C26, state part: validateRequiredFields throws exactly when a name in fields
\* has a value in obj that is absent, null or the empty string (0 and false are
\* values), and its message is "Missing required fields: " and the names that
\* are missing, in the order of fields, joined by ", ".
C26_ThrowsTheMissingNames ==
    (Done /\ op = "validateRequiredFields")
        => IF \E i \in 1..Len(arg) : LacksField(CheckedObject, arg[i])
           THEN /\ result.kind = "throw"
                /\ result.error.cls = "Error"
                /\ result.error.message =
                      Str("Missing required fields: "
                          \o ListedFrom(CheckedObject, arg, 1, TRUE))
           ELSE result = Returned(Undefined)

\* C26, step part: the call leaves obj as it was.
C26_ObjectKept == heap' = heap /\ input' = input

\* C26: validateRequiredFields throws the list of the missing fields, or
\* returns, and does not modify obj.
C26_RequiredFields == [](C26_ThrowsTheMissingNames) /\ [][C26_ObjectKept]_vars

\* {a: 0, b: ""} checked for c and b: c and b are missing, in this order.
C26_Witness ==
    /\ Done
    /\ op = "validateRequiredFields"
    /\ CheckedObject = Obj(<< <<"a">>, <<"b">> >>, <<Num("0"), Str("")>>)
    /\ arg = << <<"c">>, <<"b">> >>
    /\ result.error.message = Str("Missing required fields: c, b")

\* The key of a custom field is acceptable; so is its value.
KeyAccepted(k) ==
    /\ k # <<>>
    /\ \A i \in 1..Len(k) :
          k[i] \in UpperChars \cup Range(LowerSeq) \cup Digits \cup {"-", "_"}
    /\ k[1] # "_"
    /\ \E i \in 1..Len(k) : k[i] \notin Digits
ValueAccepted(v) == v = Null \/ v.kind = "str"

\* The message for an entry that is not acceptable: the first check failing,
\* in the order empty key, invalid characters, leading underscore, digits only,
\* value type.
RejectionMessage(k, v) ==
    LET quoted == "'" \o KeyString(k) \o "'"
    IN CASE k = <<>> -> "Custom field key must be a non-empty string"
         [] k # <<>> /\ ~MatchesKeyFormat(k) ->
                "Custom field key " \o quoted
                    \o " contains invalid characters (only alphanumeric, dash, underscore allowed)"
         [] MatchesKeyFormat(k) /\ k[1] = "_" ->
                "Custom field key " \o quoted \o " cannot start with an underscore"
         [] MatchesKeyFormat(k) /\ k[1] # "_" /\ MatchesDigits(k) ->
                "Custom field key " \o quoted \o " cannot contain only digits"
         [] OTHER -> "Custom field " \o quoted \o " value must be null or a string"

\* C27: validateCustomFields returns exactly when its argument is absent or
\* every entry has an acceptable key and a value that is null or a string;
\* otherwise it throws for the first entry, in iteration order, that is not
\* acceptable, the checks on that entry being made in the order: invalid
\* characters, leading underscore, digits only, value type.
C27_CustomFields ==
    (Done /\ op = "validateCustomFields")
        => LET cf == CheckedObject
               offending == {i \in 1..Len(cf.keys) :
                               ~(KeyAccepted(cf.keys[i]) /\ ValueAccepted(cf.kids[i]))}
           IN IF cf \in {Undefined, Null} \/ offending = {}
              THEN result = Returned(Undefined)
              ELSE LET i == CHOOSE j \in offending : \A l \in offending : j <= l
                   IN /\ result.kind = "throw"
                      /\ result.error.cls = "Error"
                      /\ result.error.message =
                            Str(RejectionMessage(cf.keys[i], cf.kids[i]))

\* After an acceptable entry, an entry whose key starts with an underscore and
\* whose value is a number: the underscore is what is reported.
C27_Witness ==
    /\ Done
    /\ op = "validateCustomFields"
    /\ CheckedObject = Obj(<< <<"a">>, <<"_", "a">> >>, <<Str("x"), Num("1")>>)
    /\ result.error.message = Str("Custom field key '_a' cannot start with an underscore")

-----------------------------------------------------------------------------
(* Further properties of toSnakeCase, checked under SpecSnake.             *)

\* C28: for every value x, whatever the case of its keys, no key of
\* toSnakeCase(x) holds an uppercase letter and
\* toSnakeCase(toSnakeCase(x)) = toSnakeCase(x).
C28_IdempotentOnEveryInput ==
    /\ ret # NoVal => \A k \in AllKeys(RetTree) : ~HasUpper(k)
    /\ retTwice # NoVal => Tree(heap, retTwice) = RetTree

\* A nested value with a key that starts with an uppercase letter.
C28_Witness ==
    /\ retTwice # NoVal
    /\ Depth(InputTree) >= 2
    /\ \E k \in AllKeys(InputTree) : k # <<>> /\ k[1] \in UpperChars
    /\ RetTree # InputTree

\* The entries of mapping t whose key is rewritten to k.
RewrittenTo(t, k) == {i \in 1..Len(t.keys) : snakeKey(t.keys[i]) = k}

\* C29: a mapping of which two keys are rewritten to the same snake_case key
\* gives a result with one entry for that key, holding the transform of the
\* value of the last of them in the order of the input, the values of the
\* others being dropped; a mapping without such keys gives a result with as
\* many entries as it has.
C29_LastCollidingKeyWins ==
    (ret # NoVal /\ InputTree.kind = "obj")
        => /\ Len(RetTree.keys) = Cardinality({snakeKey(k) : k \in Range(InputTree.keys)})
           /\ (\A i, j \in 1..Len(InputTree.keys) :
                   i # j => snakeKey(InputTree.keys[i]) # snakeKey(InputTree.keys[j]))
                 => Len(RetTree.keys) = Len(InputTree.keys)
           /\ \A k \in {snakeKey(x) : x \in Range(InputTree.keys)} :
                 LET last == CHOOSE i \in RewrittenTo(InputTree, k) :
                                \A j \in RewrittenTo(InputTree, k) : j <= i
                 IN /\ Cardinality({j \in 1..Len(RetTree.keys) : RetTree.keys[j] = k}) = 1
                    /\ IsTransformOf(Get(RetTree, k), InputTree.kids[last])
                    /\ ~IsContainer(InputTree.kids[last])
                          => Get(RetTree, k) = InputTree.kids[last]

\* Two keys of the input are rewritten to one key; the result has one entry,
\* with the value of the second, which differs from that of the first.
C29_Witness ==
    /\ ret # NoVal
    /\ InputTree.kind = "obj"
    /\ Len(InputTree.keys) = 2
    /\ snakeKey(InputTree.keys[1]) = snakeKey(InputTree.keys[2])
    /\ InputTree.kids[1] # InputTree.kids[2]
    /\ Len(RetTree.keys) = 1
    /\ RetTree.kids[1] = InputTree.kids[2]

-----------------------------------------------------------------------------
(* A further property of the resource operations, checked under Spec.      *)

\* C30: a resource operation validates nothing: whatever its arguments are,
\* options that the validation functions reject and the empty id included, it
\* hands its request to the transport, and none ends before it has sent one.
C30_NoClientSideValidation ==
    (pc # "idle" /\ op \in ResourceOps)
        => /\ Len(sent) = 1
           /\ reply.kind = "none" => pc = "awaiting"
           /\ Done => reply.kind \in {"ok", "err"}

\* timeEntries.create, called with options that validateRequiredFields rejects
\* for want of a title, has sent its request.
C30_Witness ==
    /\ pc = "awaiting"
    /\ op = "timeEntries.create"
    /\ validateRequiredFields(arg, <<TitleKey>>).kind = "throw"
    /\ LastSent.url = "/time-entries"
    /\ LastSent.data = SnakeTree(arg)

====
